---- MODULE Spec2Model ----
(***************************************************************************)
(* Model of src/run.py: main() runs load_and_preprocess_data() and then    *)
(* the two chart writers.  A data frame is a sequence of rows (records);   *)
(* a nullable cell is <<>> (NaN) or <<v>>.  Dates are day numbers counted  *)
(* from START_DATE (day 0 is 2024-01-01).  Hours are fixed-point numbers   *)
(* with denominator SecondsPerHour: the cell <<1800>> is 0.5 h.            *)
(***************************************************************************)
EXTENDS Integers, Sequences, FiniteSets, TLC

VARIABLES input, pc, df, end_date, df_dates, plot_df, main_df, images, err

vars == <<input, pc, df, end_date, df_dates, plot_df, main_df, images, err>>

----------------------------------------------------------------------------
(* Program constants *)

BASELINE_DISTANCE == 5

\* START_DATE = "2024-01-01" as <<year, month, day>>
START_DATE == <<2024, 1, 1>>

SecondsPerHour == 3600

SecondsPerMinute == 60

RUNNING == "Running"

DISTANCE_PNG == "running_distance.png"

TIME_PNG == "running_time.png"

----------------------------------------------------------------------------
(* Bounds of the model *)

\* most rows in data/Activities.csv
MaxRecords == 2

\* latest activity date, in days after START_DATE
MaxDay == 2

----------------------------------------------------------------------------
(* Cells *)

NaN == <<>>

IsNaN(c) == c = <<>>

Val(c) == c[1]

\* the value a skipna sum adds for a cell
OrZero(c) == IF IsNaN(c) THEN 0 ELSE c[1]

----------------------------------------------------------------------------
(* Text of the csv fields *)

\* a Date text is <<y, m, d>>; strptime("%Y-%m-%d") accepts months 1..12 and
\* days 1..31 of December 2023 and January 2024, the two months the model uses
DateMatchesFormat(t) ==
    /\ t[2] \in 1..12
    /\ t[3] \in 1..31
    /\ <<t[1], t[2]>> \in {<<2023, 12>>, <<2024, 1>>}

\* days from 2024-01-01 to the date
DayNumber(t) == IF t[1] = 2024 THEN t[3] - 1 ELSE t[3] - 32

\* a Distance text: a number, or text float() rejects ("N/A")
NumText(v) == [numeric |-> TRUE, value |-> v]

NotANumber == [numeric |-> FALSE, value |-> 0]

\* one colon-separated field of an Elapsed Time text: digits, or text int() rejects
IntText(v) == [digits |-> TRUE, value |-> v]

NotAnInt == [digits |-> FALSE, value |-> 0]

HMS(h, m, s) == <<IntText(h), IntText(m), IntText(s)>>

\* a text with no such month, the day before START_DATE, the days 0..MaxDay
NoSuchDate == <<2024, 13, 45>>

DayBeforeStart == <<2023, 12, 31>>

ActivityDays == [d \in 1..(MaxDay + 1) |-> <<2024, 1, d>>]

\* <<Distance text, Elapsed Time text>> of a row
Efforts ==
    << <<NumText(3), HMS(0, 30, 0)>>,
       <<NotANumber, HMS(0, 30, 0)>>,
       <<NumText(3), <<IntText(0), NotAnInt, IntText(0)>> >>,
       <<NumText(2), HMS(0, 15, 0)>>,
       <<NumText(5), HMS(1, 0, 0)>>,
       <<NumText(2), <<IntText(0), IntText(30)>> >>,
       <<NumText(0 - 1), HMS(0, 15, 0)>>,
       <<NumText(2), HMS(0 - 1, 0, 0)>> >>

\* the efforts given to the rows the filter drops: a well-formed one, one with a
\* malformed distance, one with a malformed elapsed time
DroppedEfforts == SubSeq(Efforts, 1, 3)

CsvRow(type, date, effort) ==
    [ActivityType |-> type, Date |-> date, Distance |-> effort[1], ElapsedTime |-> effort[2]]

\* the rows of every type, date and effort given, as a sequence
RowsOf(types, dates, efforts) ==
    [k \in 1..(Len(types) * Len(dates) * Len(efforts)) |->
        CsvRow(types[((k - 1) % Len(types)) + 1],
               dates[(((k - 1) \div Len(types)) % Len(dates)) + 1],
               efforts[((k - 1) \div (Len(types) * Len(dates))) + 1])]

\* The rows a file is made of: Running rows on the days 0..MaxDay with every
\* effort; Running rows before START_DATE and rows of another type on any day;
\* rows of either type whose Date text does not parse.
CsvRows ==
    RowsOf(<<"Running">>, ActivityDays, Efforts)
        \o RowsOf(<<"Running">>, <<DayBeforeStart>>, DroppedEfforts)
        \o RowsOf(<<"running">>, <<DayBeforeStart>> \o ActivityDays, DroppedEfforts)
        \o RowsOf(<<"Running", "running">>, <<NoSuchDate>>, SubSeq(Efforts, 1, 1))

\* The file with the rows numbered ks.  sort_values orders equal dates in any
\* order (SortValues), so the order of the rows in the file does not matter and
\* the files with non-decreasing row numbers stand for all files.
CsvFile(ks) == [i \in DOMAIN ks |-> CsvRows[ks[i]]]

NonDecreasing(ks) == \A i \in DOMAIN ks : i < Len(ks) => ks[i] <= ks[i + 1]

----------------------------------------------------------------------------
(* The pandas operations load_and_preprocess_data uses *)

Range(s) == {s[i] : i \in DOMAIN s}

Column(frame, name) == [i \in DOMAIN frame |-> frame[i][name]]

\* pd.to_datetime(x, format="%Y-%m-%d") of one Date text; raises ValueError when
\* the text does not match
to_datetime(t) == DayNumber(t)

\* to_numeric with a malformed text read as 0 instead of NaN
to_numeric_zero(t) == IF t.numeric THEN <<t.value>> ELSE <<0>>

\* pd.to_numeric(errors="coerce") of one Distance text
to_numeric(t) == IF t.numeric THEN <<t.value>> ELSE NaN

\* the rows of frame reordered by p
Reorder(frame, p) == [i \in DOMAIN frame |-> frame[p[i]]]

\* df.sort_values("Date", ascending=True): the default kind="quicksort" is not
\* stable, so rows with equal dates come out in any order
SortValues(frame) ==
    {Reorder(frame, p) :
        p \in {q \in [DOMAIN frame -> DOMAIN frame] :
                  /\ \A i, j \in DOMAIN frame : i # j => q[i] # q[j]
                  /\ \A i, j \in DOMAIN frame : i < j => frame[q[i]].Date <= frame[q[j]].Date}}

\* ConvertTimeRaises checking the number of fields only
ConvertTimeRaisesOnCount(time) == Len(time) # 3

\* time.split(":") unpacked into hours, minutes, seconds, and int() of each:
\* ValueError unless there are exactly three fields and each is an integer
ConvertTimeRaises(time) ==
    \/ Len(time) # 3
    \/ \E i \in DOMAIN time : ~time[i].digits

convert_time(time) ==
    time[1].value * SecondsPerHour + time[2].value * SecondsPerMinute + time[3].value

\* Series.cumsum() (skipna=True): a NaN cell stays NaN and adds nothing
RECURSIVE SumCells(_, _)
SumCells(col, n) == IF n = 0 THEN 0 ELSE SumCells(col, n - 1) + OrZero(col[n])

\* cumsum with skipna=False: every cell from the first NaN on is NaN
cumsum_noskip(col) ==
    [i \in DOMAIN col |->
        IF \E j \in 1..i : IsNaN(col[j]) THEN NaN ELSE <<SumCells(col, i)>>]

cumsum(col) == [i \in DOMAIN col |-> IF IsNaN(col[i]) THEN NaN ELSE <<SumCells(col, i)>>]

\* Series.fillna(method="ffill"): a NaN cell takes the last value before it
RECURSIVE FfillAt(_, _)
FfillAt(col, i) ==
    IF i = 0 THEN NaN
    ELSE IF IsNaN(col[i]) THEN FfillAt(col, i - 1) ELSE col[i]

\* ffill left out: the column as it is
ffill_skipped(col) == col

ffill(col) == [i \in DOMAIN col |-> FfillAt(col, i)]

\* fillna(0) left out: the column as it is
fillna_skipped(col) == col

\* Series.fillna(0)
fillna0(col) == [i \in DOMAIN col |-> IF IsNaN(col[i]) THEN <<0>> ELSE col[i]]

\* MaxDate falling back to day 0 for an empty column
MaxDateOrStart(frame) ==
    IF frame = <<>> THEN <<0>>
    ELSE <<CHOOSE d \in Range(Column(frame, "Date")) :
               \A e \in Range(Column(frame, "Date")) : e <= d>>

\* Series.max() of the Date column: NaN for an empty column
MaxDate(frame) ==
    IF frame = <<>> THEN NaN
    ELSE <<CHOOSE d \in Range(Column(frame, "Date")) :
               \A e \in Range(Column(frame, "Date")) : e <= d>>

\* pd.date_range(start, end): the days start..end, one a day
date_range(start, end) == [i \in 1..(end - start + 1) |-> start + i - 1]

\* the row of a left merge for a date without a match in df
UnmatchedRow(d) ==
    [Date |-> d, ActivityType |-> NaN, Distance |-> NaN, ElapsedTime |-> NaN,
     ElapsedTimeSeconds |-> NaN, ElapsedTimeHours |-> NaN, CumulativeDistance |-> NaN]

MatchedRow(r) ==
    [Date |-> r.Date, ActivityType |-> <<r.ActivityType>>, Distance |-> r.Distance,
     ElapsedTime |-> <<r.ElapsedTime>>, ElapsedTimeSeconds |-> <<r.ElapsedTimeSeconds>>,
     ElapsedTimeHours |-> <<r.ElapsedTimeHours>>,
     CumulativeDistance |-> r.CumulativeDistance]

MatchedRows(hits) == [i \in DOMAIN hits |-> MatchedRow(hits[i])]

\* df_dates.merge(df, on="Date", how="left"): the dates in their order, each
\* with every row of df on that date, in df's order, or with one row of NaN
RECURSIVE MergeLeft(_, _, _)
MergeLeft(dates, frame, n) ==
    IF n = 0 THEN <<>>
    ELSE LET hits == SelectSeq(frame, LAMBDA r : r.Date = dates[n])
         IN  MergeLeft(dates, frame, n - 1) \o
                 (IF hits = <<>> THEN <<UnmatchedRow(dates[n])>>
                                 ELSE MatchedRows(hits))

merge(dates, frame) == MergeLeft(dates, frame, Len(dates))

\* the goal computed from the row's date instead of its position
GoalByDate(frame) == [i \in DOMAIN frame |-> frame[i].Date * BASELINE_DISTANCE]

\* np.arange(len(plot_df)) * constant_distance_per_day
GoalColumn(frame) == [i \in DOMAIN frame |-> (i - 1) * BASELINE_DISTANCE]

----------------------------------------------------------------------------
(* The statements of load_and_preprocess_data, as functions of the frame *)

\* the date_parser raises on a Date text that does not match "%Y-%m-%d"
ReadCsvRaises(file) == \E i \in DOMAIN file : ~DateMatchesFormat(file[i].Date)

read_csv(file) ==
    [i \in DOMAIN file |->
        [ActivityType |-> file[i].ActivityType, Date |-> to_datetime(file[i].Date),
         Distance |-> file[i].Distance, ElapsedTime |-> file[i].ElapsedTime]]

DistanceToNumeric(frame) ==
    [i \in DOMAIN frame |-> [frame[i] EXCEPT !.Distance = to_numeric(@)]]

FilterDate(frame) == SelectSeq(frame, LAMBDA r : r.Date >= to_datetime(START_DATE))

\* the type compared without regard to case
FilterTypeAnyCase(frame) ==
    SelectSeq(frame, LAMBDA r : r.ActivityType \in {"Running", "running"})

FilterType(frame) == SelectSeq(frame, LAMBDA r : r.ActivityType = RUNNING)

ApplyRaises(frame) == \E i \in DOMAIN frame : ConvertTimeRaises(frame[i].ElapsedTime)

\* ElapsedTimeHours = ElapsedTimeSeconds / 3600, kept as the numerator over
\* SecondsPerHour
AddElapsedTime(frame) ==
    [i \in DOMAIN frame |->
        [ActivityType |-> frame[i].ActivityType, Date |-> frame[i].Date,
         Distance |-> frame[i].Distance, ElapsedTime |-> frame[i].ElapsedTime,
         ElapsedTimeSeconds |-> convert_time(frame[i].ElapsedTime),
         ElapsedTimeHours |-> convert_time(frame[i].ElapsedTime)]]

AddCumulativeDistance(frame) ==
    [i \in DOMAIN frame |->
        [ActivityType |-> frame[i].ActivityType, Date |-> frame[i].Date,
         Distance |-> frame[i].Distance, ElapsedTime |-> frame[i].ElapsedTime,
         ElapsedTimeSeconds |-> frame[i].ElapsedTimeSeconds,
         ElapsedTimeHours |-> frame[i].ElapsedTimeHours,
         CumulativeDistance |-> cumsum(Column(frame, "Distance"))[i]]]

FillCumulativeDistance(frame) ==
    [i \in DOMAIN frame |->
        [frame[i] EXCEPT
            !.CumulativeDistance = fillna0(ffill(Column(frame, "CumulativeDistance")))[i]]]

AddGoal(frame) ==
    [i \in DOMAIN frame |->
        [Date |-> frame[i].Date, ActivityType |-> frame[i].ActivityType,
         Distance |-> frame[i].Distance, ElapsedTime |-> frame[i].ElapsedTime,
         ElapsedTimeSeconds |-> frame[i].ElapsedTimeSeconds,
         ElapsedTimeHours |-> frame[i].ElapsedTimeHours,
         CumulativeDistance |-> frame[i].CumulativeDistance,
         Goal |-> GoalColumn(frame)[i]]]

AddCumulativeTime(frame) ==
    [i \in DOMAIN frame |->
        [Date |-> frame[i].Date, ActivityType |-> frame[i].ActivityType,
         Distance |-> frame[i].Distance, ElapsedTime |-> frame[i].ElapsedTime,
         ElapsedTimeSeconds |-> frame[i].ElapsedTimeSeconds,
         ElapsedTimeHours |-> frame[i].ElapsedTimeHours,
         CumulativeDistance |-> frame[i].CumulativeDistance,
         Goal |-> frame[i].Goal,
         CumulativeTime |->
             fillna0(ffill(cumsum(Column(frame, "ElapsedTimeHours"))))[i]]]

----------------------------------------------------------------------------
(* main() *)

NoError == [at |-> "", kind |-> ""]

ValueErrorAt(where) == [at |-> where, kind |-> "ValueError"]

\* main() is about to run on a file of 1..MaxRecords rows.  (A file with a header
\* and no row is left out: read_csv gives its Date column no datetime dtype, and
\* where the load then fails depends on the pandas build.)
Init ==
    /\ \E n \in 1..MaxRecords :
          \E ks \in [1..n -> DOMAIN CsvRows] :
              /\ NonDecreasing(ks)
              /\ input = CsvFile(ks)
    /\ pc = "read_csv"
    /\ df = <<>>
    /\ end_date = NaN
    /\ df_dates = <<>>
    /\ plot_df = <<>>
    /\ main_df = <<>>
    /\ images = <<>>
    /\ err = NoError

\* the exception swallowed and main carrying on with the charts
RaiseSwallowed(e) ==
    /\ pc' = "create_running_pic"
    /\ err' = e
    /\ UNCHANGED <<input, df, end_date, df_dates, plot_df, main_df, images>>

Raise(e) ==
    /\ pc' = "failed"
    /\ err' = e
    /\ UNCHANGED <<input, df, end_date, df_dates, plot_df, main_df, images>>

\* df = pd.read_csv(..., parse_dates=["Date"], date_parser=...)
ReadCsv ==
    /\ pc = "read_csv"
    /\ IF ReadCsvRaises(input)
       THEN Raise(ValueErrorAt("read_csv"))
       ELSE /\ df' = read_csv(input)
            /\ pc' = "to_numeric"
            /\ UNCHANGED <<input, end_date, df_dates, plot_df, main_df, images, err>>

\* df["Distance"] = pd.to_numeric(df["Distance"], errors="coerce")
ToNumeric ==
    /\ pc = "to_numeric"
    /\ df' = DistanceToNumeric(df)
    /\ pc' = "sort_values"
    /\ UNCHANGED <<input, end_date, df_dates, plot_df, main_df, images, err>>

\* df = df.sort_values(by="Date", ascending=True)
SortByDate ==
    /\ pc = "sort_values"
    /\ df' \in SortValues(df)
    /\ pc' = "filter"
    /\ UNCHANGED <<input, end_date, df_dates, plot_df, main_df, images, err>>

\* df = df[df["Date"] >= START_DATE]; df = df[df["Activity Type"] == "Running"]
Filter ==
    /\ pc = "filter"
    /\ df' = FilterType(FilterDate(df))
    /\ pc' = "convert_time"
    /\ UNCHANGED <<input, end_date, df_dates, plot_df, main_df, images, err>>

\* df["ElapsedTimeSeconds"] = df["Elapsed Time"].apply(convert_time), and
\* df["ElapsedTimeHours"]
ConvertTime ==
    /\ pc = "convert_time"
    /\ IF ApplyRaises(df)
       THEN Raise(ValueErrorAt("convert_time"))
       ELSE /\ df' = AddElapsedTime(df)
            /\ pc' = "sort_date"
            /\ UNCHANGED <<input, end_date, df_dates, plot_df, main_df, images, err>>

\* df["Date"] = df["Date"].dt.date; df = df.sort_values("Date", ascending=True)
SortByDateAgain ==
    /\ pc = "sort_date"
    /\ df' \in SortValues(df)
    /\ pc' = "cumsum"
    /\ UNCHANGED <<input, end_date, df_dates, plot_df, main_df, images, err>>

\* df["Cumulative Distance"] = df["Distance"].cumsum()
CumulativeDistance ==
    /\ pc = "cumsum"
    /\ df' = AddCumulativeDistance(df)
    /\ pc' = "date_range"
    /\ UNCHANGED <<input, end_date, df_dates, plot_df, main_df, images, err>>

\* end_date = df["Date"].max(); all_dates = pd.date_range(start_date, end_date):
\* with no row left end_date is NaN and date_range raises ValueError
DateRange ==
    /\ pc = "date_range"
    /\ end_date' = MaxDate(df)
    /\ IF IsNaN(MaxDate(df))
       THEN /\ pc' = "failed"
            /\ err' = ValueErrorAt("date_range")
            /\ UNCHANGED <<input, df, df_dates, plot_df, main_df, images>>
       ELSE /\ df_dates' = date_range(to_datetime(START_DATE), Val(MaxDate(df)))
            /\ pc' = "merge"
            /\ UNCHANGED <<input, df, plot_df, main_df, images, err>>

\* plot_df = df_dates.merge(df, on="Date", how="left")
Merge ==
    /\ pc = "merge"
    /\ plot_df' = merge(df_dates, df)
    /\ pc' = "ffill_distance"
    /\ UNCHANGED <<input, df, end_date, df_dates, main_df, images, err>>

\* plot_df["Cumulative Distance"].fillna(method="ffill"), then .fillna(0)
FfillDistance ==
    /\ pc = "ffill_distance"
    /\ plot_df' = FillCumulativeDistance(plot_df)
    /\ pc' = "goal"
    /\ UNCHANGED <<input, df, end_date, df_dates, main_df, images, err>>

\* plot_df["Goal"] = np.arange(len(plot_df)) * constant_distance_per_day
Goal ==
    /\ pc = "goal"
    /\ plot_df' = AddGoal(plot_df)
    /\ pc' = "cumulative_time"
    /\ UNCHANGED <<input, df, end_date, df_dates, main_df, images, err>>

\* plot_df["CumulativeTime"] = plot_df["ElapsedTimeHours"].cumsum(), ffill, fillna(0)
CumulativeTime ==
    /\ pc = "cumulative_time"
    /\ plot_df' = AddCumulativeTime(plot_df)
    /\ pc' = "return"
    /\ UNCHANGED <<input, df, end_date, df_dates, main_df, images, err>>

\* return plot_df, assigned to main's df
Return ==
    /\ pc = "return"
    /\ main_df' = plot_df
    /\ pc' = "create_running_pic"
    /\ UNCHANGED <<input, df, end_date, df_dates, plot_df, images, err>>

\* create_running_pic(df): py.write_image writes the file or raises
CreateRunningPic ==
    /\ pc = "create_running_pic"
    /\ \/ /\ images' = Append(images, DISTANCE_PNG)
          /\ pc' = "create_running_time_pic"
          /\ UNCHANGED <<input, df, end_date, df_dates, plot_df, main_df, err>>
       \/ Raise([at |-> "create_running_pic", kind |-> "IOError"])

\* create_running_time_pic(df)
CreateRunningTimePic ==
    /\ pc = "create_running_time_pic"
    /\ \/ /\ images' = Append(images, TIME_PNG)
          /\ pc' = "done"
          /\ UNCHANGED <<input, df, end_date, df_dates, plot_df, main_df, err>>
       \/ Raise([at |-> "create_running_time_pic", kind |-> "IOError"])

Next ==
    \/ ReadCsv
    \/ ToNumeric
    \/ SortByDate
    \/ Filter
    \/ ConvertTime
    \/ SortByDateAgain
    \/ CumulativeDistance
    \/ DateRange
    \/ Merge
    \/ FfillDistance
    \/ Goal
    \/ CumulativeTime
    \/ Return
    \/ CreateRunningPic
    \/ CreateRunningTimePic

Spec == Init /\ [][Next]_vars

----------------------------------------------------------------------------
(* load_and_preprocess_data as a whole: the results it can have on a file *)

Failure == [ok |-> FALSE, table |-> <<>>]

Returned(table) == [ok |-> TRUE, table |-> table]

\* lines 51-79 on the filtered, sorted frame
BuildTable(frame) ==
    IF IsNaN(MaxDate(frame)) THEN Failure
    ELSE Returned(AddCumulativeTime(AddGoal(FillCumulativeDistance(
             merge(date_range(to_datetime(START_DATE), Val(MaxDate(frame))),
                   AddCumulativeDistance(frame))))))

\* lines 38-79 on the filtered frame
ConvertAndBuild(frame) ==
    IF ApplyRaises(frame) THEN {Failure}
    ELSE {BuildTable(sorted) : sorted \in SortValues(AddElapsedTime(frame))}

LoadOutcomes(file) ==
    IF ReadCsvRaises(file) THEN {Failure}
    ELSE UNION {ConvertAndBuild(FilterType(FilterDate(sorted))) :
                   sorted \in SortValues(DistanceToNumeric(read_csv(file)))}

----------------------------------------------------------------------------
(* What the properties speak of *)

\* load_and_preprocess_data has returned its table to main
Loaded == main_df # <<>>

\* the run ended inside load_and_preprocess_data
LoadFailed == pc = "failed" /\ main_df = <<>>

\* a csv row that is of type "Running" and dated on or after START_DATE
PassesFilter(r) ==
    /\ DateMatchesFormat(r.Date)
    /\ DayNumber(r.Date) >= 0
    /\ r.ActivityType = "Running"

KeptRows == {i \in DOMAIN input : PassesFilter(input[i])}

\* a csv row the filter drops
Excluded(r) ==
    /\ DateMatchesFormat(r.Date)
    /\ \/ r.ActivityType # "Running"
       \/ DayNumber(r.Date) < 0

ThreeIntegerFields(time) == Len(time) = 3 /\ \A i \in 1..3 : time[i].digits

\* hours*3600 + minutes*60 + seconds of a well-formed Elapsed Time
SecondsOf(r) ==
    r.ElapsedTime[1].value * 3600 + r.ElapsedTime[2].value * 60 + r.ElapsedTime[3].value

\* the distance of a csv row, 0 when its text is no number
DistanceOf(r) == IF r.Distance.numeric THEN r.Distance.value ELSE 0

RECURSIVE SumUpTo(_, _)
SumUpTo(s, n) == IF n = 0 THEN 0 ELSE SumUpTo(s, n - 1) + s[n]

Sum(s) == SumUpTo(s, Len(s))

\* the total distance, and elapsed seconds, of the kept rows dated day or earlier
DistanceThrough(day) ==
    Sum([i \in DOMAIN input |->
            IF i \in KeptRows /\ DayNumber(input[i].Date) <= day
            THEN DistanceOf(input[i]) ELSE 0])

SecondsThrough(day) ==
    Sum([i \in DOMAIN input |->
            IF i \in KeptRows /\ DayNumber(input[i].Date) <= day
            THEN SecondsOf(input[i]) ELSE 0])

LastKeptDay ==
    CHOOSE d \in {DayNumber(input[i].Date) : i \in KeptRows} :
        \A i \in KeptRows : DayNumber(input[i].Date) <= d

AtMostOneRunPerDate ==
    \A i, j \in KeptRows : i # j => input[i].Date # input[j].Date

\* a row of the table that comes from a record (not a day without activity)
IsRecordRow(row) == ~IsNaN(row.ActivityType)

RunningRow(day, km, h, m, s) ==
    CsvRow("Running", <<2024, 1, day + 1>>, <<NumText(km), HMS(h, m, s)>>)

InputIs(rows) == Len(input) = Cardinality(rows) /\ Range(input) = rows

----------------------------------------------------------------------------
(* C1 *)

\* C1: the returned table has exactly one row per calendar date from START_DATE
\* to the last activity date: (max_date - start_date).days + 1 rows, row i
\* holding day i - 1, so the dates are strictly ascending without duplicate or gap.
C1_OneRowPerDate ==
    Loaded =>
        /\ Len(main_df) = LastKeptDay + 1
        /\ \A i \in DOMAIN main_df : main_df[i].Date = i - 1

----------------------------------------------------------------------------
(* C2 *)

ScenarioTwoRuns == {RunningRow(0, 3, 0, 30, 0), RunningRow(2, 2, 0, 15, 0)}

ScenarioOneRun == {RunningRow(0, 5, 1, 0, 0)}

\* C2: with at most one Running record per date, every row of the returned table
\* holds the total distance and the total elapsed time (in hours) of the records
\* that pass the filter and are dated on or before the row's date; the two-record
\* scenario gives distance [3, 3, 5], goal [0, 5, 10] and time [0.5, 0.5, 0.75] h,
\* and the one-record scenario gives 5 km, 1 h and goal 0 on day 0.
C2_CumulativeSums ==
    /\ Loaded /\ AtMostOneRunPerDate =>
           \A i \in DOMAIN main_df :
               /\ main_df[i].CumulativeDistance = <<DistanceThrough(main_df[i].Date)>>
               /\ main_df[i].CumulativeTime = <<SecondsThrough(main_df[i].Date)>>
    /\ Loaded /\ InputIs(ScenarioTwoRuns) =>
           /\ Column(main_df, "CumulativeDistance") = << <<3>>, <<3>>, <<5>> >>
           /\ Column(main_df, "Goal") = <<0, 5, 10>>
           \* 0.5 h, 0.5 h and 0.75 h over SecondsPerHour
           /\ Column(main_df, "CumulativeTime") = << <<1800>>, <<1800>>, <<2700>> >>
    /\ Loaded /\ InputIs(ScenarioOneRun) =>
           /\ main_df[1].CumulativeDistance = <<5>>
           /\ main_df[1].CumulativeTime = <<3600>>
           /\ main_df[1].Goal = 0

C2_Witness == pc = "done" /\ InputIs(ScenarioTwoRuns) /\ Len(main_df) = 3

----------------------------------------------------------------------------
(* C3 *)

WithoutExcluded(file) == SelectSeq(file, LAMBDA r : ~Excluded(r))

----------------------------------------------------------------------------
(* C4 *)

NonNegativeInput ==
    \A i \in DOMAIN input :
        /\ DistanceOf(input[i]) >= 0
        /\ ThreeIntegerFields(input[i].ElapsedTime) => SecondsOf(input[i]) >= 0

\* C4: for an input without negative distance or elapsed time, the cumulative
\* distance and the cumulative time never decrease from one row of the returned
\* table to the next.
C4_NonDecreasing ==
    Loaded /\ NonNegativeInput =>
        \A i, j \in DOMAIN main_df :
            i < j =>
                /\ Val(main_df[i].CumulativeDistance) <= Val(main_df[j].CumulativeDistance)
                /\ Val(main_df[i].CumulativeTime) <= Val(main_df[j].CumulativeTime)

\* a gap day, then two records on one date, one with a malformed distance
C4_Witness ==
    /\ pc = "done"
    /\ NonNegativeInput
    /\ ~IsRecordRow(main_df[1])
    /\ \E i, j \in DOMAIN main_df :
           /\ i < j
           /\ main_df[i].Date = main_df[j].Date
           /\ IsNaN(main_df[j].Distance)
           /\ Val(main_df[i].CumulativeDistance) > 0

----------------------------------------------------------------------------
(* C5 *)

\* C5: the Goal of every row is its zero-based position times BASELINE_DISTANCE,
\* so the Goal column is a function of the table's length alone.
C5_GoalByPosition ==
    Loaded =>
        Column(main_df, "Goal") = [i \in 1..Len(main_df) |-> (i - 1) * BASELINE_DISTANCE]

\* two records on day 1: the third row is the second row of that day
C5_Witness ==
    /\ pc = "done"
    /\ Len(main_df) = 3
    /\ main_df[3].Date = 1
    /\ main_df[3].Goal = 10

----------------------------------------------------------------------------
(* C6 *)

MalformedDistanceRows == {i \in KeptRows : ~input[i].Distance.numeric}

\* nothing but the distance text could make the load fail
OnlyDistanceMalformed ==
    /\ \A i \in DOMAIN input : DateMatchesFormat(input[i].Date)
    /\ \A i \in KeptRows : ThreeIntegerFields(input[i].ElapsedTime)
    /\ MalformedDistanceRows # {}

\* C6: a kept record with a malformed distance does not abort the run; in the
\* returned table only such records have a missing Distance, the record adds 0 to
\* the cumulative distance (its row repeats the value of the row before it, 0
\* for the first row, and the last row holds the total of the well-formed
\* distances), and its elapsed time is added to CumulativeTime.
C6_MalformedDistance ==
    /\ OnlyDistanceMalformed => ~LoadFailed
    /\ Loaded =>
           /\ Cardinality({i \in DOMAIN main_df :
                               IsRecordRow(main_df[i]) /\ IsNaN(main_df[i].Distance)})
                  = Cardinality(MalformedDistanceRows)
           /\ main_df[Len(main_df)].CumulativeDistance = <<DistanceThrough(LastKeptDay)>>
           /\ \A i \in DOMAIN main_df :
                  IsRecordRow(main_df[i]) /\ IsNaN(main_df[i].Distance) =>
                      /\ main_df[i].CumulativeDistance =
                             (IF i = 1 THEN <<0>> ELSE main_df[i - 1].CumulativeDistance)
                      /\ Val(main_df[i].CumulativeTime) =
                             (IF i = 1 THEN 0 ELSE Val(main_df[i - 1].CumulativeTime))
                                 + Val(main_df[i].ElapsedTimeHours)

\* a record with a malformed distance between a known total and a later record
C6_Witness ==
    /\ pc = "done"
    /\ \E i, j \in DOMAIN main_df :
           /\ i < j
           /\ IsRecordRow(main_df[i]) /\ IsNaN(main_df[i].Distance)
           /\ Val(main_df[i].ElapsedTimeHours) > 0
           /\ IsRecordRow(main_df[j]) /\ ~IsNaN(main_df[j].Distance)
           /\ Val(main_df[j].CumulativeDistance) > 0

----------------------------------------------------------------------------
(* C7 *)

\* the positions of main before convert_time has run
BeforeConvertTime == {"read_csv", "to_numeric", "sort_values", "filter", "convert_time"}

----------------------------------------------------------------------------
(* C8 *)

\* C8: an image is written only after load_and_preprocess_data has returned,
\* running_distance.png before running_time.png; a run that fails in the load
\* stage has written no image.
C8_ImagesAfterLoad ==
    /\ images # <<>> => Loaded
    /\ images \in {<<>>, <<DISTANCE_PNG>>, <<DISTANCE_PNG, TIME_PNG>>}
    /\ err.at \in {"read_csv", "convert_time", "date_range"} => images = <<>>
    /\ pc = "failed" /\ images = <<>> /\ Loaded => err.at = "create_running_pic"

\* both images written, in order
C8_Witness == pc = "done" /\ Loaded /\ images = <<DISTANCE_PNG, TIME_PNG>>

----------------------------------------------------------------------------
(* C9 *)

HasOwnDistance(row) == IsRecordRow(row) /\ ~IsNaN(row.Distance)

HasOwnTime(row) == ~IsNaN(row.ElapsedTimeHours)

\* the nearest row before i that satisfies Own, 0 when there is none
NearestEarlier(i, Own(_)) ==
    IF \E j \in 1..(i - 1) : Own(main_df[j])
    THEN CHOOSE j \in 1..(i - 1) :
             Own(main_df[j]) /\ \A k \in (j + 1)..(i - 1) : ~Own(main_df[k])
    ELSE 0

\* C9: no row of the returned table has a missing cumulative distance or
\* cumulative time; a row without a value of its own holds the value of the
\* nearest earlier row that has one, and 0 when no earlier row has one.
C9_NoMissingAfterFill ==
    Loaded =>
        \A i \in DOMAIN main_df :
            /\ ~IsNaN(main_df[i].CumulativeDistance)
            /\ ~IsNaN(main_df[i].CumulativeTime)
            /\ ~HasOwnDistance(main_df[i]) =>
                   main_df[i].CumulativeDistance =
                       (IF NearestEarlier(i, HasOwnDistance) = 0 THEN <<0>>
                        ELSE main_df[NearestEarlier(i, HasOwnDistance)].CumulativeDistance)
            /\ ~HasOwnTime(main_df[i]) =>
                   main_df[i].CumulativeTime =
                       (IF NearestEarlier(i, HasOwnTime) = 0 THEN <<0>>
                        ELSE main_df[NearestEarlier(i, HasOwnTime)].CumulativeTime)

\* a day without activity between two records, filled with the first record's
\* totals
C9_Witness ==
    /\ pc = "done"
    /\ Len(main_df) = 3
    /\ HasOwnDistance(main_df[1])
    /\ ~IsRecordRow(main_df[2])
    /\ Val(main_df[2].CumulativeDistance) > 0 /\ Val(main_df[2].CumulativeTime) > 0
    /\ Val(main_df[3].CumulativeDistance) > Val(main_df[2].CumulativeDistance)

----------------------------------------------------------------------------
(* C10 *)

====
